---------------------------- MODULE Spec2Model ----------------------------
(***************************************************************************)
(* Model of the anime-stats-tracker client scripts:                        *)
(*   - filterAnime of app.js (season browser) and the filter that          *)
(*     getRandomAnime of data_cn.js applies before it draws a record;      *)
(*   - the catalog loader of data_cn.js / random.js: loadManifest,         *)
(*     loadGenres, loadAllAnimeData with its cache (allAnimeCache) and      *)
(*     its in-flight handle (allAnimePromise), and the picker that calls   *)
(*     it;                                                                 *)
(*   - the two pickers as functions of the loaded catalog (random.js and   *)
(*     data_cn.js), from the filter to the card shown;                     *)
(*   - the genre corpus of loadGenres (count, rank, cut at 30, sort);      *)
(*   - the season browser of app.js (navigation, loadSeason, toggles) and  *)
(*     the genre buttons of the three pages;                               *)
(*   - shouldHideNotRatedByDefault as a function of the season and date;   *)
(*   - the charts of the data page (data_cn.js): loadAllData, the load      *)
(*     functions and reloadAllCharts.                                       *)
(*                                                                         *)
(* Conventions.  A record of the JSON corpus is a TLA+ record whose        *)
(* DOMAIN holds exactly the keys that carry a value: a key that is          *)
(* missing or holds JSON null is not in the DOMAIN.  Scores and the rating *)
(* slider are in tenths (75 is 7.5), so [0,10] is 0..100.                  *)
(***************************************************************************)
EXTENDS Integers, Sequences, FiniteSets, TLC

VARIABLES
    \* ---- filter configuration (globals of app.js / data_cn.js)
    showHentai, hideNotRated, japaneseOnly, selectedGenres, filterMode,
    ratingFilter,
    \* ---- the filter applied as a function: its argument, which filter
    \*      ran, and what it returned
    animeList, applied, filtered,
    \* ---- the server: manifest.json and the partition files
    serverManifest, files,
    \* ---- the loader (globals of data_cn.js / random.js) and its callers
    manifest, manifestState, allAnimeCache, allAnimePromise,
    loads, fetched, calls, ready, resultCard,
    \* ---- what a click on the picker's button drew
    randomAnime,
    \* ---- the genre facets (global allGenres of each script)
    allGenres,
    \* ---- the page a browser tab shows: which script runs, the buttons of
    \*      #genre-filters, and for app.js its navigation state, the season
    \*      it holds, its grid and its season requests in flight; today is
    \*      what new Date() gives during the visit
    page, genreButtons, view, hash, hashEvents, loadsStarted, currentSeason,
    allAnimeData, loading, grid, requests, today,
    \* ---- the charts of the data page: the Chart.js build the page loads,
    \*      the chart globals of data_cn.js, the Chart instances made so far,
    \*      the load functions in flight, the sections a catch block has
    \*      hidden, the reloadAllCharts calls made
    chartJs, chartGlobals, chartInstances, dataLoads, sectionHidden, reloads

cfgVars    == <<showHentai, hideNotRated, japaneseOnly, selectedGenres,
                filterMode, ratingFilter>>
fnVars     == <<animeList, applied, filtered>>
serverVars == <<serverManifest, files>>
loaderVars == <<manifest, manifestState, allAnimeCache, allAnimePromise,
                loads, fetched, calls, ready, resultCard>>
chartVars  == <<chartJs, chartGlobals, chartInstances, dataLoads, sectionHidden,
                reloads>>
uiVars     == <<page, genreButtons, view, hash, hashEvents, loadsStarted,
                currentSeason, allAnimeData, loading, grid, requests, today,
                chartVars>>
pageVars   == <<randomAnime, allGenres, uiVars>>
vars       == <<cfgVars, fnVars, serverVars, loaderVars, pageVars>>

---------------------------------------------------------------------------
(* Bounds *)

\* longest record list handed to the filters
MaxLen == 2
\* most entries of manifest.json
MaxParts == 2
\* most clicks on "get random anime"
MaxClicks == 2
\* Math.random() draws one of 0/RandDen .. (RandDen-1)/RandDen
RandDen == 4

---------------------------------------------------------------------------
(* Records *)

Has(r, f) == f \in DOMAIN r

Range(s) == { s[i] : i \in 1..Len(s) }

Genres == {"Action", "Comedy", "Horror"}

\* the two records of the scenario of the specification
RecA == [mal_id |-> 1, is_hentai |-> FALSE, is_japanese |-> TRUE, score |-> 75,
         genres |-> <<"Action", "Comedy">>]
RecB == [mal_id |-> 2, is_hentai |-> FALSE, is_japanese |-> FALSE,
         genres |-> <<"Comedy">>]
\* an adult record scored 0 of unknown origin, and a record without genres
RecC == [mal_id |-> 3, is_hentai |-> TRUE, score |-> 0,
         genres |-> <<"Comedy", "Horror">>]
RecD == [mal_id |-> 4, is_hentai |-> FALSE, is_japanese |-> TRUE, score |-> 62]

Catalog == {RecA, RecB, RecC, RecD}

Opt(f, vals) == {<<>>} \cup { f :> v : v \in vals }

\* every combination of present/absent fields the filters read
RecordUniverse ==
    { [mal_id |-> 9] @@ h @@ s @@ j @@ g :
        h \in Opt("is_hentai", BOOLEAN),
        s \in Opt("score", {0, 75}),
        j \in Opt("is_japanese", BOOLEAN),
        g \in Opt("genres", {<<"Action">>, <<"Action", "Comedy">>, <<"Comedy">>}) }

SeqsOver(S, lo, hi) == UNION { [1..n -> S] : n \in lo..hi }

ListInputs == {<<>>} \cup { <<r>> : r \in RecordUniverse }
                     \cup SeqsOver(Catalog, 2, MaxLen)

\* positions of the rating slider: no threshold, below and at a score held
RatingInputs == {0, 70, 75}

---------------------------------------------------------------------------
(* app.js: filterAnime *)

\* arr.includes(x)
Includes(arr, x) == \E i \in 1..Len(arr) : arr[i] = x

\* anime.genres || []
animeGenres(anime) == IF Has(anime, "genres") THEN anime.genres ELSE <<>>

\* if (!showHentai && anime.is_hentai) return false
AppHentaiReject(anime) ==
    ~showHentai /\ Has(anime, "is_hentai") /\ anime.is_hentai

\* if (hideNotRated && (!anime.score || anime.score === null || ...)) return false
\* !anime.score is true of undefined, of null and of the number 0
AppNotRatedReject(anime) ==
    hideNotRated /\ (~Has(anime, "score") \/ anime.score = 0)

\* variant: !anime.is_japanese where the code compares with === false
AppJapaneseRejectFalsy(anime) ==
    japaneseOnly /\ ~(Has(anime, "is_japanese") /\ anime.is_japanese)

\* if (japaneseOnly) { if (anime.is_japanese === false) return false }
AppJapaneseReject(anime) ==
    japaneseOnly /\ Has(anime, "is_japanese") /\ anime.is_japanese = FALSE

\* variant: every() where the code calls some()
hasSelectedGenreEvery(anime) ==
    \A genre \in selectedGenres : Includes(animeGenres(anime), genre)

\* Array.from(selectedGenres).some(genre => animeGenres.includes(genre))
hasSelectedGenre(anime) ==
    \E genre \in selectedGenres : Includes(animeGenres(anime), genre)

\* variant: every() over the genres of the anime, tested against the selection
hasAllGenresOfAnime(anime) ==
    \A i \in 1..Len(animeGenres(anime)) : animeGenres(anime)[i] \in selectedGenres

\* Array.from(selectedGenres).every(genre => animeGenres.includes(genre))
hasAllGenres(anime) ==
    \A genre \in selectedGenres : Includes(animeGenres(anime), genre)

\* if (selectedGenres.size > 0) { OR: !hasSelectedGenre ; else: !hasAllGenres }
AppGenreReject(anime) ==
    /\ selectedGenres # {}
    /\ IF filterMode = "OR" THEN ~hasSelectedGenre(anime)
                            ELSE ~hasAllGenres(anime)

\* the callback of animeList.filter
filterAnimeKeep(anime) ==
    /\ ~AppHentaiReject(anime)
    /\ ~AppNotRatedReject(anime)
    /\ ~AppJapaneseReject(anime)
    /\ ~AppGenreReject(anime)

\* variant: the kept records collected in reverse
RECURSIVE filterAnimeReversed(_)
filterAnimeReversed(list) ==
    IF list = <<>> THEN <<>>
    ELSE filterAnimeReversed(Tail(list))
         \o (IF filterAnimeKeep(Head(list)) THEN <<Head(list)>> ELSE <<>>)

\* variant: the first kept record is dropped
filterAnimeSkipFirst(list) ==
    IF SelectSeq(list, filterAnimeKeep) = <<>> THEN <<>>
    ELSE Tail(SelectSeq(list, filterAnimeKeep))

filterAnime(list) == SelectSeq(list, filterAnimeKeep)

---------------------------------------------------------------------------
(* data_cn.js: the filter of getRandomAnime *)

\* typeof anime.score === 'number' && !Number.isNaN(anime.score)
hasScore(anime) == Has(anime, "score")

\* hasScore ? anime.score : 0
scoreValue(anime) == IF hasScore(anime) THEN anime.score ELSE 0

PickerHentaiReject(anime) ==
    ~showHentai /\ Has(anime, "is_hentai") /\ anime.is_hentai

PickerNotRatedReject(anime) == hideNotRated /\ ~hasScore(anime)

PickerJapaneseReject(anime) ==
    japaneseOnly /\ Has(anime, "is_japanese") /\ anime.is_japanese = FALSE

\* Array.from(selectedGenres).some(genre => animeGenres.includes(genre))
hasAnyGenre(anime) ==
    \E genre \in selectedGenres : Includes(animeGenres(anime), genre)

\* variant: some() where the code calls every()
pickerHasAllGenresSome(anime) ==
    \E genre \in selectedGenres : Includes(animeGenres(anime), genre)

\* Array.from(selectedGenres).every(genre => animeGenres.includes(genre))
pickerHasAllGenres(anime) ==
    \A genre \in selectedGenres : Includes(animeGenres(anime), genre)

PickerGenreReject(anime) ==
    /\ selectedGenres # {}
    /\ IF filterMode = "OR" THEN ~hasAnyGenre(anime)
                            ELSE ~pickerHasAllGenres(anime)

\* variant: only rated records are compared with the threshold
PickerRatingRejectRatedOnly(anime) ==
    hasScore(anime) /\ scoreValue(anime) < ratingFilter

\* if (!hasScore && ratingFilter > 0) return false
\* if (hasScore && scoreValue < ratingFilter) return false
PickerRatingReject(anime) ==
    \/ ~hasScore(anime) /\ ratingFilter > 0
    \/ hasScore(anime) /\ scoreValue(anime) < ratingFilter

PickerKeep(anime) ==
    /\ ~PickerHentaiReject(anime)
    /\ ~PickerNotRatedReject(anime)
    /\ ~PickerJapaneseReject(anime)
    /\ ~PickerGenreReject(anime)
    /\ ~PickerRatingReject(anime)

PickerFilter(list) == SelectSeq(list, PickerKeep)

---------------------------------------------------------------------------
(* Initial values of the globals *)

\* data_cn.js / random.js: let manifest = [] ... let japaneseOnly = true
LoaderGlobalsInit ==
    /\ manifest = <<>>
    /\ manifestState = "init"
    /\ allAnimeCache = <<>>
    /\ allAnimePromise = 0
    /\ loads = <<>>
    /\ fetched = [i \in 1..Len(serverManifest) |-> 0]
    /\ calls = <<>>
    /\ ready = FALSE
    /\ resultCard = ""

ServerIdle == serverManifest = <<>> /\ files = <<>>

\* #anime-grid: empty, a card per record, or one of its two messages
Grid(kind, cards) == [kind |-> kind, cards |-> cards]

\* let ratingTrendChart = null; ... : the chart globals that the modelled
\* load functions assign, each the chart of the canvas of its name
ChartNames == {"ratingTrendChart", "seasonalRatingsChart", "seasonalCountsChart"}

ChartIdle ==
    /\ chartJs = "refuses"
    /\ chartGlobals = [c \in ChartNames |-> 0]
    /\ chartInstances = <<>>
    /\ dataLoads = <<>>
    /\ sectionHidden = {}
    /\ reloads = 0

UiIdle ==
    /\ ChartIdle
    /\ page = "none"
    /\ genreButtons = <<>>
    /\ view = "home"
    /\ hash = 0
    /\ hashEvents = 0
    /\ loadsStarted = 0
    /\ currentSeason = 0
    /\ allAnimeData = <<>>
    /\ loading = FALSE
    /\ grid = Grid("empty", <<>>)
    /\ requests = <<>>
    /\ today = [year |-> 2024, month |-> 1]

PageIdle == randomAnime = <<>> /\ allGenres = <<>> /\ UiIdle

---------------------------------------------------------------------------
(* The filters as functions: every argument and every configuration *)

InitFilter ==
    /\ showHentai \in BOOLEAN
    /\ hideNotRated \in BOOLEAN
    /\ japaneseOnly \in BOOLEAN
    /\ selectedGenres \in SUBSET Genres
    /\ filterMode \in {"OR", "AND"}
    /\ ratingFilter \in RatingInputs
    /\ animeList \in ListInputs
    /\ applied = "none"
    /\ filtered = <<>>
    /\ ServerIdle
    /\ LoaderGlobalsInit
    /\ PageIdle

ApplyFilterAnime ==
    /\ applied = "none"
    /\ applied' = "filterAnime"
    /\ filtered' = filterAnime(animeList)
    /\ UNCHANGED <<animeList, cfgVars, serverVars, loaderVars, pageVars>>

ApplyPickerFilter ==
    /\ applied = "none"
    /\ applied' = "getRandomAnime"
    /\ filtered' = PickerFilter(animeList)
    /\ UNCHANGED <<animeList, cfgVars, serverVars, loaderVars, pageVars>>

NextFilter == ApplyFilterAnime \/ ApplyPickerFilter

SpecFilter == InitFilter /\ [][NextFilter]_vars

---------------------------------------------------------------------------
(* filterAnime applied a second time: to its own result, and to the same   *)
(* records after updateFilterMode switched between OR and AND               *)

\* filterAnime(filterAnime(animeList)) under the configuration of the first
FilterAgain ==
    /\ applied = "filterAnime"
    /\ applied' = "filterAnime twice"
    /\ filtered' = filterAnime(filtered)
    /\ UNCHANGED <<animeList, cfgVars, serverVars, loaderVars, pageVars>>

\* updateFilterMode(mode): filterMode = mode, then the records are filtered
\* again (renderAnime calls filterAnime)
SwitchFilterMode ==
    /\ applied = "filterAnime"
    /\ UNCHANGED <<animeList, showHentai, hideNotRated, japaneseOnly,
                   selectedGenres, ratingFilter, serverVars, loaderVars,
                   pageVars>>
    /\ \E mode \in {"OR", "AND"} : filterMode' = mode
    /\ applied' = "updateFilterMode"
    /\ filtered' = filterAnime(animeList)'

NextAlgebra == ApplyFilterAnime \/ FilterAgain \/ SwitchFilterMode

SpecAlgebra == InitFilter /\ [][NextAlgebra]_vars

---------------------------------------------------------------------------
(* data_cn.js / random.js: the genre corpus of loadGenres *)

\* .slice(0, 30)
TopGenres == 30

\* genre names in the order of Array.prototype.sort() without a comparator
\* (by UTF-16 code unit, which for these names is the alphabetical order)
Alphabet ==
    <<"Action", "Adventure", "Avant Garde", "Award Winning", "Boys Love",
      "Comedy", "Drama", "Ecchi", "Erotica", "Fantasy", "Girls Love",
      "Gourmet", "Hentai", "Horror", "Isekai", "Josei", "Kids", "Mecha",
      "Military", "Music", "Mystery", "Parody", "Psychological", "Romance",
      "School", "Sci-Fi", "Seinen", "Shoujo", "Shounen", "Slice of Life",
      "Space", "Sports", "Supernatural", "Suspense">>

NameRank(g) == CHOOSE i \in 1..Len(Alphabet) : Alphabet[i] = g

\* allAnime.forEach(anime => { if (anime.genres && Array.isArray(anime.genres))
\*     anime.genres.forEach(...) }): the genres visited, in order
RECURSIVE GenreOccurrences(_)
GenreOccurrences(list) ==
    IF list = <<>> THEN <<>>
    ELSE (IF Has(Head(list), "genres") THEN Head(list).genres ELSE <<>>)
         \o GenreOccurrences(Tail(list))

\* if (genre && genre !== 'Hentai')
\*     genreCounts.set(genre, (genreCounts.get(genre) || 0) + 1);
\* a Map keeps its keys in the order of their first insertion
RECURSIVE CountInto(_, _)
CountInto(entries, occ) ==
    IF occ = <<>> THEN entries
    ELSE LET genre == Head(occ) IN
         IF genre = "" \/ genre = "Hentai" THEN CountInto(entries, Tail(occ))
         ELSE IF \E k \in 1..Len(entries) : entries[k].genre = genre
         THEN CountInto(
                  [k \in 1..Len(entries) |->
                      IF entries[k].genre = genre
                      THEN [entries[k] EXCEPT !.count = @ + 1]
                      ELSE entries[k]],
                  Tail(occ))
         ELSE CountInto(Append(entries, [genre |-> genre, count |-> 1]), Tail(occ))

\* Array.from(genreCounts.entries())
genreCounts(allAnime) == CountInto(<<>>, GenreOccurrences(allAnime))

\* .sort((a, b) => b[1] - a[1]): by count, descending; Array.prototype.sort
\* is stable, entries of equal count keep their order
RECURSIVE InsertByCount(_, _)
InsertByCount(sorted, e) ==
    IF sorted = <<>> THEN <<e>>
    ELSE IF Head(sorted).count >= e.count
    THEN <<Head(sorted)>> \o InsertByCount(Tail(sorted), e)
    ELSE <<e>> \o sorted

RECURSIVE SortByCountDesc(_)
SortByCountDesc(entries) ==
    IF entries = <<>> THEN <<>>
    ELSE InsertByCount(SortByCountDesc(SubSeq(entries, 1, Len(entries) - 1)),
                       entries[Len(entries)])

\* .slice(0, n)
Slice(seq, n) == SubSeq(seq, 1, IF Len(seq) < n THEN Len(seq) ELSE n)

\* .map(entry => entry[0])
EntryNames(entries) == [k \in 1..Len(entries) |-> entries[k].genre]

\* .sort()
RECURSIVE InsertByName(_, _)
InsertByName(sorted, g) ==
    IF sorted = <<>> THEN <<g>>
    ELSE IF NameRank(Head(sorted)) <= NameRank(g)
    THEN <<Head(sorted)>> \o InsertByName(Tail(sorted), g)
    ELSE <<g>> \o sorted

RECURSIVE SortNames(_)
SortNames(names) ==
    IF names = <<>> THEN <<>>
    ELSE InsertByName(SortNames(SubSeq(names, 1, Len(names) - 1)),
                      names[Len(names)])

\* variant: sorted alphabetically first, truncated afterwards
topGenresAlphabeticalCut(entries) ==
    Slice(SortNames(EntryNames(entries)), TopGenres)

\* allGenres = Array.from(genreCounts.entries()).sort(...).slice(0, 30)
\*                 .map(...).sort()
topGenres(entries) ==
    SortNames(EntryNames(Slice(SortByCountDesc(entries), TopGenres)))

---------------------------------------------------------------------------
(* data_cn.js / random.js: the catalog loader *)

Seasons == <<"winter", "spring", "summer", "fall">>

\* the i-th entry of manifest.json
Item(i) == [year |-> 2024 + ((i - 1) \div 4), season |-> Seasons[((i - 1) % 4) + 1]]

ManifestOfLen(n) == [i \in 1..n |-> Item(i)]

\* what a partition file data/<year>/<season>.json may hold
FileInputs == {<<>>, <<RecB>>, <<RecA, RecB>>}

\* a settled promise: fulfilled with a value, or rejected
Fulfilled(v) == [ok |-> TRUE, value |-> v]
Rejected == [ok |-> FALSE, value |-> <<>>]

\* variant: the records merged as fetched, without the partition's keys
AnnotateSeasonNone(seasonData, item) == seasonData

\* seasonData.map(anime => ({...anime, year: item.year, season: item.season}))
AnnotateSeason(seasonData, item) ==
    [k \in 1..Len(seasonData) |->
        ("year" :> item.year) @@ ("season" :> item.season) @@ seasonData[k]]

\* array.flat()
RECURSIVE Flat(_)
Flat(arrays) ==
    IF arrays = <<>> THEN <<>> ELSE Head(arrays) \o Flat(Tail(arrays))

\* variant: no catch around the fetch, a network error rejects the promise
PartitionSettledNoCatch(how, seasonData, item) ==
    CASE how = "parsed"        -> Fulfilled(AnnotateSeason(seasonData, item))
      [] how = "http_error"    -> Fulfilled(<<>>)
      [] how = "bad_json"      -> Fulfilled(<<>>)
      [] how = "network_error" -> Rejected

\* what the promise of one manifest.map callback settles with:
\*   !response.ok -> return []; a throw of fetch or of response.json() is
\*   caught -> return []; otherwise the annotated records
PartitionSettled(how, seasonData, item) ==
    CASE how = "parsed"        -> Fulfilled(AnnotateSeason(seasonData, item))
      [] how = "http_error"    -> Fulfilled(<<>>)
      [] how = "bad_json"      -> Fulfilled(<<>>)
      [] how = "network_error" -> Fulfilled(<<>>)

\* variant: the results taken in the order the fetches completed
allAnimeArraysByArrival(load) ==
    [k \in 1..Len(load.order) |-> load.result[load.order[k]].value]

\* await Promise.all(allAnimePromises): the values by position in the manifest
allAnimeArrays(load) ==
    [i \in 1..Len(load.result) |-> load.result[i].value]

\* variant: the check of allAnimePromise left out
loadDecisionNoAttach(cache, promise, mf) ==
    IF Len(cache) > 0 THEN "cached"
    ELSE IF Len(mf) = 0 THEN "empty"
    ELSE "start"

\* variant: the check of the manifest left out
loadDecisionNoEmpty(cache, promise, mf) ==
    IF Len(cache) > 0 THEN "cached"
    ELSE IF promise # 0 THEN "attach"
    ELSE "start"

\* the three early returns of loadAllAnimeData
loadDecision(cache, promise, mf) ==
    IF Len(cache) > 0 THEN "cached"
    ELSE IF promise # 0 THEN "attach"
    ELSE IF Len(mf) = 0 THEN "empty"
    ELSE "start"

\* the async IIFE up to its await: one fetch issued per manifest entry
NewLoad(mf) ==
    [state   |-> [i \in 1..Len(mf) |-> "fetching"],
     parsed  |-> [i \in 1..Len(mf) |-> FALSE],
     result  |-> [i \in 1..Len(mf) |-> Fulfilled(<<>>)],
     order   |-> <<>>,
     done    |-> FALSE,
     outcome |-> Fulfilled(<<>>)]

\* Math.floor(Math.random() * n), as a position 1..n
RandomIndex(u, n) == ((u * n) \div RandDen) + 1

\* variant: no test of filtered.length; filtered[0] of an empty array is
\* undefined, displayRandomAnime(undefined) throws and the catch block shows
\* 'An error occurred'
PickerShownNoCheck(qualifying) ==
    IF Len(qualifying) = 0 THEN "error_occurred" ELSE "anime"

\* if (filtered.length === 0) { ...'No anime found'...; return; }
\* ... displayRandomAnime(randomAnime)
PickerShown(qualifying) ==
    IF Len(qualifying) = 0 THEN "no_anime_found" ELSE "anime"

\* const randomAnime = filtered[Math.floor(Math.random() * filtered.length)],
\* reached only with filtered.length > 0
PickerDraw(qualifying, u) ==
    IF Len(qualifying) = 0 THEN <<>>
    ELSE <<qualifying[RandomIndex(u, Len(qualifying))]>>

\* the rest of a caller after its await loadAllAnimeData():
\*   loadGenres counts the genres and renders them, or shows its error;
\*   getRandomAnime filters, then shows 'No anime found', a drawn record,
\*   or 'An error occurred'
Finish(call, settled, u) ==
    IF call.who = "loadGenres"
    THEN [call EXCEPT !.state = "returned", !.settled = settled,
                      !.shown = IF settled.ok THEN "genres" ELSE "genres_error"]
    ELSE IF ~settled.ok
    THEN [call EXCEPT !.state = "returned", !.settled = settled,
                      !.shown = "error_occurred"]
    ELSE LET qualifying == PickerFilter(settled.value) IN
         [call EXCEPT !.state = "returned", !.settled = settled,
                      !.shown = PickerShown(qualifying),
                      !.picked = PickerDraw(qualifying, u)]

NewCall(who, load) ==
    [who |-> who, load |-> load, state |-> "awaiting",
     settled |-> Fulfilled(<<>>), shown |-> "loading", picked |-> <<>>]

\* the callers a settled load resumes, in the order they attached
Resumed(cs, l) == { k \in 1..Len(cs) : cs[k].state = "awaiting" /\ cs[k].load = l }

\* one draw of Math.random() for each resumed getRandomAnime
Draws(cs, l) ==
    [{ k \in Resumed(cs, l) : cs[k].who = "getRandomAnime" } -> 0..(RandDen - 1)]

ResumeCalls(cs, l, settled, rnd) ==
    [k \in 1..Len(cs) |->
        IF k \in Resumed(cs, l)
        THEN Finish(cs[k], settled, IF k \in DOMAIN rnd THEN rnd[k] ELSE 0)
        ELSE cs[k]]

Max(S) == CHOOSE x \in S : \A y \in S : y <= x

\* #random-result-card after the resumed callers wrote to it, the last one last
CardAfter(card, cs, resumed) ==
    IF resumed = {} THEN card
    ELSE LET last == cs[Max(resumed)] IN
         IF last.shown = "genres" THEN card ELSE last.shown

\* allGenres once loadGenres has returned from a fulfilled load: the top
\* genres of the array it awaited; [] before, and after a rejected load
GenresAfter(cs) ==
    LET done == { k \in 1..Len(cs) : /\ cs[k].who = "loadGenres"
                                      /\ cs[k].state = "returned"
                                      /\ cs[k].settled.ok }
    IN  IF done = {} THEN <<>>
        ELSE topGenres(genreCounts(cs[CHOOSE k \in done : TRUE].settled.value))

\* the DOMContentLoaded handler goes on to attach the click handlers once
\* loadManifest (and the loadGenres it awaits) has returned
GenresReturned(cs) == \E k \in 1..Len(cs) : cs[k].who = "loadGenres" /\ cs[k].state = "returned"

\* variant: no finally block, allAnimePromise keeps the settled promise
SettleLoadNoFinally(ls, cs, l, rnd) ==
    LET load    == ls[l]
        failed  == \E i \in 1..Len(load.result) :
                      load.state[i] = "settled" /\ ~load.result[i].ok
        settled == IF failed THEN Rejected ELSE Fulfilled(Flat(allAnimeArrays(load)))
        cs2     == ResumeCalls(cs, l, settled, rnd)
    IN  /\ loads' = [ls EXCEPT ![l].done = TRUE, ![l].outcome = settled]
        /\ allAnimeCache' = IF failed THEN allAnimeCache ELSE settled.value
        /\ allAnimePromise' = l
        /\ calls' = cs2
        /\ resultCard' = CardAfter(resultCard, cs2, Resumed(cs, l))
        /\ ready' = (ready \/ GenresReturned(cs2))

\* The settling of load l (Promise.all fulfilled, or rejected by its first
\* rejection): allAnimeCache = allAnimeArrays.flat() on success, finally
\* allAnimePromise = null, then every awaiting caller continues.
SettleLoad(ls, cs, l, rnd) ==
    LET load    == ls[l]
        failed  == \E i \in 1..Len(load.result) :
                      load.state[i] = "settled" /\ ~load.result[i].ok
        settled == IF failed THEN Rejected ELSE Fulfilled(Flat(allAnimeArrays(load)))
        cs2     == ResumeCalls(cs, l, settled, rnd)
    IN  /\ loads' = [ls EXCEPT ![l].done = TRUE, ![l].outcome = settled]
        /\ allAnimeCache' = IF failed THEN allAnimeCache ELSE settled.value
        /\ allAnimePromise' = 0
        /\ calls' = cs2
        /\ resultCard' = CardAfter(resultCard, cs2, Resumed(cs, l))
        /\ ready' = (ready \/ GenresReturned(cs2))

\* whether load l settles now: not settled yet, and a partition rejected or
\* every partition is settled
SettlesNow(load) ==
    /\ ~load.done
    /\ \/ \E i \in 1..Len(load.result) : load.state[i] = "settled" /\ ~load.result[i].ok
       \/ \A i \in 1..Len(load.result) : load.state[i] = "settled"

\* the loads still in flight: a settled load is released when the next begins
InFlight(ls) == { k \in DOMAIN ls : ~ls[k].done }

\* loads are numbered in the order they begin
NextLoadId ==
    1 + Max({0} \cup DOMAIN loads \cup { calls[k].load : k \in 1..Len(calls) })

\* loadAllAnimeData() called by `who`, with mf the manifest at the call, and
\* the continuation of the caller when the call returns a settled value
LoadAllAnimeData(who, mf, card) ==
    LET decision == loadDecision(allAnimeCache, allAnimePromise, mf) IN
    CASE decision = "cached" ->
            \E u \in 0..(RandDen - 1) :
                LET c == Finish(NewCall(who, 0), Fulfilled(allAnimeCache), u) IN
                /\ calls' = Append(calls, c)
                /\ resultCard' = IF c.shown = "genres" THEN card ELSE c.shown
                /\ ready' = (ready \/ who = "loadGenres")
                /\ UNCHANGED <<allAnimeCache, allAnimePromise, loads, fetched>>
      [] decision = "empty" ->
            \E u \in 0..(RandDen - 1) :
                LET c == Finish(NewCall(who, 0), Fulfilled(<<>>), u) IN
                /\ calls' = Append(calls, c)
                /\ resultCard' = IF c.shown = "genres" THEN card ELSE c.shown
                /\ ready' = (ready \/ who = "loadGenres")
                /\ UNCHANGED <<allAnimeCache, allAnimePromise, loads, fetched>>
      [] decision = "attach" ->
            /\ calls' = Append(calls, NewCall(who, allAnimePromise))
            /\ resultCard' = card
            /\ UNCHANGED <<allAnimeCache, allAnimePromise, loads, fetched, ready>>
      [] decision = "start" ->
            LET l   == NextLoadId
                ls2 == [k \in InFlight(loads) \cup {l} |->
                           IF k = l THEN NewLoad(mf) ELSE loads[k]]
                cs2 == Append(calls, NewCall(who, l))
            IN  /\ fetched' = [i \in DOMAIN fetched |->
                                  IF i <= Len(mf) THEN fetched[i] + 1 ELSE fetched[i]]
                /\ IF SettlesNow(ls2[l])
                   THEN \E rnd \in Draws(cs2, l) : SettleLoad(ls2, cs2, l, rnd)
                   ELSE /\ loads' = ls2
                        /\ allAnimePromise' = l
                        /\ calls' = cs2
                        /\ resultCard' = card
                        /\ UNCHANGED <<allAnimeCache, ready>>

\* document.addEventListener('DOMContentLoaded', ...): loadManifest() runs up
\* to its await fetch('data/manifest.json')
DOMContentLoaded ==
    /\ manifestState = "init"
    /\ manifestState' = "fetching"
    /\ UNCHANGED <<manifest, allAnimeCache, allAnimePromise, loads, fetched,
                   calls, ready, resultCard, cfgVars, fnVars, serverVars, pageVars>>

\* the catch of loadManifest: showError(...), loadManifest returns, the
\* handler attaches the click handlers
ManifestFailed ==
    /\ manifestState' = "failed"
    /\ resultCard' = "load_error"
    /\ ready' = TRUE
    /\ UNCHANGED <<manifest, allAnimeCache, allAnimePromise, loads, fetched, calls>>

\* the response of fetch('data/manifest.json') arrives
ManifestResponse ==
    /\ manifestState = "fetching"
    /\ \E how \in {"ok", "http_error", "network_error"} :
          IF how = "ok"
          THEN /\ manifestState' = "parsing"
               /\ UNCHANGED <<manifest, allAnimeCache, allAnimePromise, loads,
                              fetched, calls, ready, resultCard>>
          ELSE ManifestFailed
    /\ UNCHANGED <<cfgVars, fnVars, serverVars, pageVars>>

\* response.json() settles: manifest = ..., then await loadGenres(), which
\* awaits loadAllAnimeData()
ManifestJson ==
    /\ manifestState = "parsing"
    /\ \E how \in {"parsed", "bad_json"} :
          IF how = "parsed"
          THEN /\ manifestState' = "loaded"
               /\ manifest' = serverManifest
               /\ LoadAllAnimeData("loadGenres", serverManifest, resultCard)
          ELSE ManifestFailed
    /\ allGenres' = GenresAfter(calls')
    /\ UNCHANGED <<cfgVars, fnVars, serverVars, randomAnime, uiVars>>

\* a click on #get-random-anime or #get-another-random: getRandomAnime()
\* empties the result card and awaits loadAllAnimeData()
ClickGetRandomAnime ==
    /\ ready
    /\ Cardinality({ k \in 1..Len(calls) : calls[k].who = "getRandomAnime" }) < MaxClicks
    /\ LoadAllAnimeData("getRandomAnime", manifest, "")
    /\ UNCHANGED <<manifest, manifestState, cfgVars, fnVars, serverVars, pageVars>>

\* one partition of load l settles as `how`
SettlePartition(l, i, how) ==
    LET ls2 == [loads EXCEPT ![l].state[i] = "settled",
                             ![l].parsed[i] = (how = "parsed"),
                             ![l].result[i] = PartitionSettled(how, files[i], manifest[i]),
                             ![l].order = Append(@, i)]
    IN  IF SettlesNow(ls2[l])
        THEN \E rnd \in Draws(calls, l) : SettleLoad(ls2, calls, l, rnd)
        ELSE /\ loads' = ls2
             /\ UNCHANGED <<allAnimeCache, allAnimePromise, calls, ready, resultCard>>

\* the response of fetch(`data/${item.year}/${item.season}.json`) arrives
FetchResponse ==
    /\ \E l \in DOMAIN loads : \E i \in 1..Len(loads[l].state) :
          /\ loads[l].state[i] = "fetching"
          /\ \E how \in {"ok", "http_error", "network_error"} :
                IF how = "ok"
                THEN /\ loads' = [loads EXCEPT ![l].state[i] = "parsing"]
                     /\ UNCHANGED <<allAnimeCache, allAnimePromise, calls, ready,
                                    resultCard>>
                ELSE SettlePartition(l, i, how)
    /\ allGenres' = GenresAfter(calls')
    /\ UNCHANGED <<manifest, manifestState, fetched, cfgVars, fnVars, serverVars,
                   randomAnime, uiVars>>

\* response.json() of a partition settles
FetchJson ==
    /\ \E l \in DOMAIN loads : \E i \in 1..Len(loads[l].state) :
          /\ loads[l].state[i] = "parsing"
          /\ \E how \in {"parsed", "bad_json"} : SettlePartition(l, i, how)
    /\ allGenres' = GenresAfter(calls')
    /\ UNCHANGED <<manifest, manifestState, fetched, cfgVars, fnVars, serverVars,
                   randomAnime, uiVars>>

\* the picker page as the scripts leave it, against any server
InitLoader ==
    /\ showHentai = FALSE
    /\ hideNotRated = TRUE
    /\ japaneseOnly = TRUE
    /\ selectedGenres = {}
    /\ filterMode = "OR"
    /\ ratingFilter = 0
    /\ animeList = <<>>
    /\ applied = "none"
    /\ filtered = <<>>
    /\ serverManifest \in { ManifestOfLen(n) : n \in 0..MaxParts }
    /\ files \in [1..Len(serverManifest) -> FileInputs]
    /\ LoaderGlobalsInit
    /\ PageIdle

NextLoader ==
    \/ DOMContentLoaded
    \/ ManifestResponse
    \/ ManifestJson
    \/ ClickGetRandomAnime
    \/ FetchResponse
    \/ FetchJson

SpecLoader == InitLoader /\ [][NextLoader]_vars

\* what FetchResponse and FetchJson do to the loader: a partition fetch in
\* flight is answered, a body being read is parsed or refused
PartitionAnswered ==
    \E l \in DOMAIN loads : \E i \in 1..Len(loads[l].state) :
        /\ loads[l].state[i] = "fetching"
        /\ \E how \in {"ok", "http_error", "network_error"} :
              IF how = "ok"
              THEN /\ loads' = [loads EXCEPT ![l].state[i] = "parsing"]
                   /\ UNCHANGED <<allAnimeCache, allAnimePromise, calls, ready,
                                  resultCard>>
              ELSE SettlePartition(l, i, how)

PartitionRead ==
    \E l \in DOMAIN loads : \E i \in 1..Len(loads[l].state) :
        /\ loads[l].state[i] = "parsing"
        /\ \E how \in {"parsed", "bad_json"} : SettlePartition(l, i, how)

\* every partition fetch settles
SpecLoaderFair ==
    SpecLoader /\ WF_loads(PartitionAnswered) /\ WF_loads(PartitionRead)

---------------------------------------------------------------------------
(* The two pickers as functions of the loaded catalog: random.js           *)
(* getRandomAnime with displayRandomAnime, and data_cn.js getRandomAnime    *)
(* once loadAllAnimeData has returned the catalog.  animeList is the        *)
(* catalog: allAnimeCache as random.js reads it, the array allAnime that    *)
(* data_cn.js awaits.                                                       *)

\* random.js: the callback of allAnimeCache.filter; selectedGenres is the set
\* of the .genre-btn.active buttons
RandomJsKeep(anime) ==
    selectedGenres # {} =>
        (Has(anime, "genres")
            /\ \E k \in 1..Len(anime.genres) : anime.genres[k] \in selectedGenres)

RandomJsFilter(list) == SelectSeq(list, RandomJsKeep)

\* if (filteredAnime.length === 0) return null;
\* return filteredAnime[Math.floor(Math.random() * filteredAnime.length)]
RandomJsReturn(filteredAnime, u) ==
    IF Len(filteredAnime) = 0 THEN <<>>
    ELSE <<filteredAnime[RandomIndex(u, Len(filteredAnime))]>>

\* displayRandomAnime: if (!anime) { ...'No anime found'...; return; }
RandomJsShown(anime) == IF anime = <<>> THEN "no_anime_found" ELSE "anime"

loaderRest == <<manifest, manifestState, allAnimeCache, allAnimePromise,
                loads, fetched, calls, ready>>

InitSample ==
    /\ showHentai \in BOOLEAN
    /\ hideNotRated \in BOOLEAN
    /\ japaneseOnly \in BOOLEAN
    /\ selectedGenres \in SUBSET Genres
    /\ filterMode \in {"OR", "AND"}
    /\ ratingFilter \in RatingInputs
    /\ animeList \in ListInputs
    /\ applied = "none"
    /\ filtered = <<>>
    /\ ServerIdle
    /\ manifest = <<>>
    /\ manifestState = "loaded"
    /\ allAnimeCache = animeList
    /\ allAnimePromise = 0
    /\ loads = <<>>
    /\ fetched = <<>>
    /\ calls = <<>>
    /\ ready = TRUE
    /\ resultCard = ""
    /\ PageIdle

\* random.js: a click on #get-random-anime
RandomJsClick ==
    /\ applied = "none"
    /\ \E u \in 0..(RandDen - 1) :
          LET filteredAnime == RandomJsFilter(allAnimeCache)
              anime         == RandomJsReturn(filteredAnime, u)
          IN  /\ applied' = "random.js"
              /\ filtered' = filteredAnime
              /\ randomAnime' = anime
              /\ resultCard' = RandomJsShown(anime)
    /\ UNCHANGED <<animeList, allGenres, uiVars, cfgVars, serverVars, loaderRest>>

\* data_cn.js: a click on #get-random-anime, loadAllAnimeData returning the
\* catalog it holds
DataCnClick ==
    /\ applied = "none"
    /\ \E u \in 0..(RandDen - 1) :
          LET qualifying == PickerFilter(allAnimeCache)
          IN  /\ applied' = "data_cn.js"
              /\ filtered' = qualifying
              /\ randomAnime' = PickerDraw(qualifying, u)
              /\ resultCard' = PickerShown(qualifying)
    /\ UNCHANGED <<animeList, allGenres, uiVars, cfgVars, serverVars, loaderRest>>

\* with filterAnime of app.js applied to the same records
NextSample == RandomJsClick \/ DataCnClick \/ ApplyFilterAnime

SpecSample == InitSample /\ [][NextSample]_vars

---------------------------------------------------------------------------
(* Catalogs for the genre corpus, and loadGenres as a function of one *)

\* ---- catalogs that put more genres in the corpus than loadGenres keeps

GenrePool == SelectSeq(Alphabet, LAMBDA g : g # "Hentai")

Reverse(seq) == [k \in 1..Len(seq) |-> seq[Len(seq) + 1 - k]]

\* how many distinct genres the catalog uses
UsedInputs == {2, TopGenres, TopGenres + 1, Len(GenrePool)}

\* the genres of the catalog in the order its first record lists them
Listings ==
    { SubSeq(l, 1, n) : l \in {GenrePool, Reverse(GenrePool)}, n \in UsedInputs }

\* the genres a second record does not repeat: none, one or two
RareInputs(listing) ==
    {{}} \cup { {a, b} : a, b \in Range(listing) }

\* one record with every genre of the listing, one with the frequent ones,
\* three adult records carrying the reserved genre, one record without genres
GenreCatalog(listing, rare) ==
    << [mal_id |-> 1, is_hentai |-> FALSE, genres |-> listing],
       [mal_id |-> 2, is_hentai |-> TRUE, genres |-> <<"Hentai", listing[1]>>],
       [mal_id |-> 3, is_hentai |-> FALSE,
        genres |-> SelectSeq(listing, LAMBDA g : g \notin rare)],
       [mal_id |-> 5, is_hentai |-> TRUE, genres |-> <<"Hentai">>],
       [mal_id |-> 6, is_hentai |-> TRUE, genres |-> <<"Hentai">>],
       RecD >>

GenreCatalogs ==
    UNION { { GenreCatalog(listing, rare) : rare \in RareInputs(listing) } :
                listing \in Listings }

LoaderDone ==
    /\ manifest = <<>>
    /\ manifestState = "loaded"
    /\ allAnimePromise = 0
    /\ loads = <<>>
    /\ fetched = <<>>
    /\ calls = <<>>
    /\ ready = FALSE
    /\ resultCard = ""

InitGenres ==
    /\ showHentai = FALSE
    /\ hideNotRated = TRUE
    /\ japaneseOnly = TRUE
    /\ selectedGenres = {}
    /\ filterMode = "OR"
    /\ ratingFilter = 0
    /\ animeList = <<>>
    /\ applied = "none"
    /\ filtered = <<>>
    /\ ServerIdle
    /\ allAnimeCache \in GenreCatalogs
    /\ LoaderDone
    /\ PageIdle

\* loadGenres after its await loadAllAnimeData() returned allAnimeCache
LoadGenres ==
    /\ applied = "none"
    /\ applied' = "loadGenres"
    /\ allGenres' = topGenres(genreCounts(allAnimeCache))
    /\ UNCHANGED <<animeList, filtered, randomAnime, uiVars, cfgVars,
                   serverVars, loaderVars>>

NextGenres == LoadGenres

SpecGenres == InitGenres /\ [][NextGenres]_vars

---------------------------------------------------------------------------
(* app.js: the season browser.  Navigation (hash, season buttons, back),   *)
(* loadSeason with its fetch in flight, the genre buttons and the toggles.  *)
(* The same section holds the genre buttons of the two picker pages.        *)

\* loadSeason calls one behaviour may make
MaxLoads == 2

\* an adult record that carries the reserved genre
RecH == [mal_id |-> 5, is_hentai |-> TRUE, score |-> 62,
         genres |-> <<"Hentai", "Comedy">>]

\* the season files of the server, data/<year>/<season>.json for the
\* manifest entries Item(1), Item(2)
SeasonFiles == << <<RecA, RecH>>, <<RecB, RecD>> >>

\* what loadAllAnimeData may return to loadGenres on a picker page
FacetCatalogs == {<<>>, <<RecH>>, <<RecA, RecH, RecC>>}

\* new Date(): the year and the month (1-12) of a visit to the season
\* browser.  For Item(1) (winter 2024) and Item(2) (spring 2024): both
\* upcoming or in their first month, winter past its first month and spring
\* in its first, both past their first month
NowInputs == { [year |-> 2024, month |-> m] : m \in {1, 4, 5} }

\* seasonMonths[season.toLowerCase()]
seasonStartMonth(season) ==
    CASE season = "winter" -> 1
      [] season = "spring" -> 4
      [] season = "summer" -> 7
      [] season = "fall"   -> 10

\* variant: ON from the first month of the current season
shouldHideFromFirstMonth(year, season, now) ==
    IF year > now.year THEN FALSE
    ELSE IF year < now.year THEN TRUE
    ELSE IF now.month < seasonStartMonth(season) THEN FALSE
    ELSE IF /\ now.month >= seasonStartMonth(season)
            /\ now.month <= seasonStartMonth(season) + 2
         THEN now.month >= seasonStartMonth(season)
         ELSE TRUE

shouldHideNotRatedByDefault(year, season, now) ==
    IF year > now.year THEN FALSE
    ELSE IF year < now.year THEN TRUE
    ELSE IF now.month < seasonStartMonth(season) THEN FALSE
    ELSE IF /\ now.month >= seasonStartMonth(season)
            /\ now.month <= seasonStartMonth(season) + 2
         THEN now.month > seasonStartMonth(season)
         ELSE TRUE

RECURSIVE SetToSeq(_)
SetToSeq(S) ==
    IF S = {} THEN <<>>
    ELSE LET x == CHOOSE x \in S : TRUE IN <<x>> \o SetToSeq(S \ {x})

\* variant: the reserved genre is collected like any other
extractGenresAll(data) ==
    SortNames(SetToSeq({ g \in Range(GenreOccurrences(data)) : g # "" }))

\* extractGenres: genreSet.add(genre) if (genre && genre !== 'Hentai');
\* allGenres = Array.from(genreSet).sort()
extractGenres(data) ==
    SortNames(SetToSeq({ g \in Range(GenreOccurrences(data)) :
                            g # "" /\ g # "Hentai" }))

\* renderGenreFilters: one button per genre of allGenres, each handler
\* closing over isSelected as it was when the button was made; the 'All'
\* button is there iff a genre button is
renderGenreFilters(genres, selected) ==
    [k \in 1..Len(genres) |->
        [genre |-> genres[k], isSelected |-> genres[k] \in selected]]

\* renderGenres of random.js: the buttons without the class 'active'
renderGenres(genres) ==
    [k \in 1..Len(genres) |-> [genre |-> genres[k], isSelected |-> FALSE]]

\* renderAnime: the cards of filterAnime(allAnimeData), or its message
renderAnime ==
    LET shown == filterAnime(allAnimeData) IN
    IF Len(shown) = 0 THEN Grid("none_found", <<>>) ELSE Grid("cards", shown)

RemoveAt(seq, r) == [k \in 1..(Len(seq) - 1) |-> IF k < r THEN seq[k] ELSE seq[k + 1]]

\* showHomePage, ev hashchange events being queued
showHomePage(ev) ==
    /\ view' = "home"
    /\ hash' = 0
    /\ hashEvents' = IF hash # 0 THEN ev + 1 ELSE ev
    /\ allAnimeData' = <<>>
    /\ selectedGenres' = {}
    /\ allGenres' = <<>>
    /\ UNCHANGED <<hideNotRated, currentSeason, genreButtons, loading, grid,
                   requests, loadsStarted>>

\* variant: hideNotRated is left as it was declared or toggled
loadSeasonKeepsToggle(i) ==
    /\ currentSeason' = i
    /\ loading' = TRUE
    /\ grid' = Grid("empty", <<>>)
    /\ hideNotRated' = hideNotRated
    /\ requests' = Append(requests, [part |-> i, state |-> "fetching"])
    /\ loadsStarted' = loadsStarted + 1
    /\ UNCHANGED <<allAnimeData, selectedGenres, allGenres, genreButtons>>

\* loadSeason(year, season) up to its await fetch(...), for manifest entry i
loadSeason(i) ==
    /\ currentSeason' = i
    /\ loading' = TRUE
    /\ grid' = Grid("empty", <<>>)
    /\ hideNotRated' = shouldHideNotRatedByDefault(Item(i).year, Item(i).season, today)
    /\ requests' = Append(requests, [part |-> i, state |-> "fetching"])
    /\ loadsStarted' = loadsStarted + 1
    /\ UNCHANGED <<allAnimeData, selectedGenres, allGenres, genreButtons>>

\* showAnimePage(year, season)
showAnimePage(i, ev) ==
    /\ loadsStarted < MaxLoads
    /\ view' = "anime"
    /\ hash' = i
    /\ hashEvents' = IF hash # i THEN ev + 1 ELSE ev
    /\ loadSeason(i)

\* handleHashNavigation
handleHashNavigation(ev) ==
    IF hash # 0 THEN showAnimePage(hash, ev) ELSE showHomePage(ev)

\* what no handler of app.js writes
browserRest == <<ratingFilter, fnVars, serverVars, allAnimeCache, allAnimePromise,
                 loads, fetched, calls, ready, resultCard, randomAnime, page,
                 today, chartVars>>

\* the DOMContentLoaded handler of app.js: loadManifest() up to its await,
\* the toggle setups, handleHashNavigation() on the hash the tab opened with
BrowserDOMContentLoaded ==
    /\ page = "app.js"
    /\ manifestState = "init"
    /\ manifestState' = "fetching"
    /\ japaneseOnly' = TRUE
    /\ handleHashNavigation(hashEvents)
    /\ UNCHANGED <<showHentai, filterMode, manifest, browserRest>>

\* fetch('data/manifest.json') and response.json() settle: displayYears(),
\* or showError(...)
BrowserManifestSettles ==
    /\ page = "app.js"
    /\ manifestState = "fetching"
    /\ \E how \in {"ok", "http_error", "network_error", "bad_json"} :
          IF how = "ok"
          THEN manifestState' = "loaded" /\ manifest' = serverManifest
          ELSE manifestState' = "failed" /\ manifest' = manifest
    /\ UNCHANGED <<cfgVars, allGenres, genreButtons, view, hash, hashEvents,
                   loadsStarted, currentSeason, allAnimeData, loading, grid,
                   requests, browserRest>>

\* a click on a .season-btn of the home page
SeasonClick ==
    /\ page = "app.js"
    /\ view = "home"
    /\ manifestState = "loaded"
    /\ \E i \in 1..Len(manifest) : showAnimePage(i, hashEvents)
    /\ UNCHANGED <<showHentai, japaneseOnly, filterMode, manifest, manifestState,
                   browserRest>>

\* a click on #back-button
BackClick ==
    /\ page = "app.js"
    /\ view = "anime"
    /\ showHomePage(hashEvents)
    /\ UNCHANGED <<showHentai, japaneseOnly, filterMode, manifest, manifestState,
                   browserRest>>

\* a queued hashchange event is delivered
HashChange ==
    /\ page = "app.js"
    /\ hashEvents > 0
    /\ handleHashNavigation(hashEvents - 1)
    /\ UNCHANGED <<showHentai, japaneseOnly, filterMode, manifest, manifestState,
                   browserRest>>

\* the visitor changes location.hash (address bar, back and forward buttons):
\* a hashchange event is queued for the listener that app.js registered
HashNavigate ==
    /\ page = "app.js"
    /\ manifestState # "init"
    /\ hashEvents = 0
    /\ loadsStarted < MaxLoads
    /\ \E j \in 0..Len(serverManifest) : j # hash /\ hash' = j
    /\ hashEvents' = hashEvents + 1
    /\ UNCHANGED <<cfgVars, allGenres, genreButtons, view, loadsStarted,
                   currentSeason, allAnimeData, loading, grid, requests,
                   manifest, manifestState, browserRest>>

\* the catch block of loadSeason
loadSeasonFailed(r) ==
    /\ requests' = RemoveAt(requests, r)
    /\ loading' = FALSE
    /\ grid' = Grid("failed", <<>>)
    /\ UNCHANGED <<allAnimeData, allGenres, genreButtons>>

\* the response of a season fetch arrives
SeasonResponse ==
    /\ page = "app.js"
    /\ \E r \in 1..Len(requests) :
          /\ requests[r].state = "fetching"
          /\ \E how \in {"ok", "http_error", "network_error"} :
                IF how = "ok"
                THEN /\ requests' = [requests EXCEPT ![r].state = "parsing"]
                     /\ UNCHANGED <<allAnimeData, allGenres, genreButtons, loading,
                                    grid>>
                ELSE loadSeasonFailed(r)
    /\ UNCHANGED <<cfgVars, view, hash, hashEvents, loadsStarted, currentSeason,
                   manifest, manifestState, browserRest>>

\* response.json() of a season settles: allAnimeData = ..., extractGenres(),
\* renderGenreFilters(), renderAnime()
SeasonJson ==
    /\ page = "app.js"
    /\ UNCHANGED <<cfgVars, view, hash, hashEvents, loadsStarted, currentSeason,
                   manifest, manifestState, browserRest>>
    /\ \E r \in 1..Len(requests) :
          /\ requests[r].state = "parsing"
          /\ \E how \in {"parsed", "bad_json"} :
                IF how = "parsed"
                THEN /\ requests' = RemoveAt(requests, r)
                     /\ allAnimeData' = files[requests[r].part]
                     /\ allGenres' = extractGenres(allAnimeData')
                     /\ loading' = FALSE
                     /\ genreButtons' = renderGenreFilters(allGenres', selectedGenres)
                     /\ grid' = renderAnime'
                ELSE loadSeasonFailed(r)

\* what a toggle or a genre button of app.js leaves alone
toggleRest == <<allGenres, view, hash, hashEvents, loadsStarted, currentSeason,
                allAnimeData, loading, requests, manifest, manifestState,
                browserRest>>

\* variant: the global is set and the grid is left as it is
ToggleChangeNoRender ==
    /\ page = "app.js"
    /\ view = "anime"
    /\ UNCHANGED <<selectedGenres, genreButtons, toggleRest>>
    /\ \E which \in {"hentai", "not_rated", "japanese", "OR", "AND"} :
          /\ showHentai' = IF which = "hentai" THEN ~showHentai ELSE showHentai
          /\ hideNotRated' = IF which = "not_rated" THEN ~hideNotRated ELSE hideNotRated
          /\ japaneseOnly' = IF which = "japanese" THEN ~japaneseOnly ELSE japaneseOnly
          /\ filterMode' = IF which \in {"OR", "AND"} THEN which ELSE filterMode
    /\ grid' = grid

\* the change handlers of the three toggles and the OR / AND buttons:
\* the global is set, and renderAnime() runs if (allAnimeData.length > 0)
ToggleChange ==
    /\ page = "app.js"
    /\ view = "anime"
    /\ UNCHANGED <<selectedGenres, genreButtons, toggleRest>>
    /\ \E which \in {"hentai", "not_rated", "japanese", "OR", "AND"} :
          /\ showHentai' = IF which = "hentai" THEN ~showHentai ELSE showHentai
          /\ hideNotRated' = IF which = "not_rated" THEN ~hideNotRated ELSE hideNotRated
          /\ japaneseOnly' = IF which = "japanese" THEN ~japaneseOnly ELSE japaneseOnly
          /\ filterMode' = IF which \in {"OR", "AND"} THEN which ELSE filterMode
    /\ grid' = IF Len(allAnimeData) > 0 THEN renderAnime' ELSE grid

\* a click on a genre button: the handler adds or deletes by the isSelected
\* it closed over, then renderGenreFilters() and renderAnime()
GenreClick ==
    /\ page = "app.js"
    /\ view = "anime"
    /\ UNCHANGED <<showHentai, hideNotRated, japaneseOnly, filterMode, toggleRest>>
    /\ \E k \in 1..Len(genreButtons) :
          selectedGenres' = IF genreButtons[k].isSelected
                            THEN selectedGenres \ {genreButtons[k].genre}
                            ELSE selectedGenres \cup {genreButtons[k].genre}
    /\ genreButtons' = renderGenreFilters(allGenres, selectedGenres')
    /\ grid' = renderAnime'

\* a click on the 'All' button
AllClick ==
    /\ page = "app.js"
    /\ view = "anime"
    /\ Len(genreButtons) > 0
    /\ UNCHANGED <<showHentai, hideNotRated, japaneseOnly, filterMode, toggleRest>>
    /\ selectedGenres' = {}
    /\ genreButtons' = renderGenreFilters(allGenres, selectedGenres')
    /\ grid' = renderAnime'

\* ---- the picker pages

pickerRest == <<showHentai, hideNotRated, japaneseOnly, filterMode, ratingFilter,
                fnVars, serverVars, manifest, allAnimePromise, loads, fetched,
                calls, resultCard, randomAnime, page, view, hash, hashEvents,
                loadsStarted, currentSeason, allAnimeData, loading, grid, requests,
                today, chartVars>>

\* loadGenres of data_cn.js / random.js once loadAllAnimeData() has returned
\* a catalog: allGenres is assigned and the buttons are rendered
PickerGenresLoaded ==
    /\ page \in {"data_cn.js", "random.js"}
    /\ ~ready
    /\ ready' = TRUE
    /\ manifestState' = "loaded"
    /\ \E catalog \in FacetCatalogs :
          /\ allAnimeCache' = catalog
          /\ allGenres' = topGenres(genreCounts(catalog))
    /\ genreButtons' = IF page = "random.js" THEN renderGenres(allGenres')
                       ELSE renderGenreFilters(allGenres', selectedGenres)
    /\ UNCHANGED <<selectedGenres, pickerRest>>

\* a click on a genre button: data_cn.js adds or deletes by isSelected and
\* renders again; random.js toggles the button's class 'active'
PickerGenreClick ==
    /\ page \in {"data_cn.js", "random.js"}
    /\ \E k \in 1..Len(genreButtons) :
          IF page = "random.js"
          THEN /\ genreButtons' = [genreButtons EXCEPT ![k].isSelected = ~@]
               /\ UNCHANGED selectedGenres
          ELSE /\ selectedGenres' = IF genreButtons[k].isSelected
                                    THEN selectedGenres \ {genreButtons[k].genre}
                                    ELSE selectedGenres \cup {genreButtons[k].genre}
               /\ genreButtons' = renderGenreFilters(allGenres, selectedGenres')
    /\ UNCHANGED <<allGenres, allAnimeCache, ready, manifestState, pickerRest>>

\* a click on the 'All' button of data_cn.js
PickerAllClick ==
    /\ page = "data_cn.js"
    /\ Len(genreButtons) > 0
    /\ selectedGenres' = {}
    /\ genreButtons' = renderGenreFilters(allGenres, selectedGenres')
    /\ UNCHANGED <<allGenres, allAnimeCache, ready, manifestState, pickerRest>>

\* a tab opens one of the three pages; the season browser may open on a
\* season's hash
InitFacets ==
    /\ page \in {"app.js", "data_cn.js", "random.js"}
    /\ showHentai = FALSE
    /\ hideNotRated = (page # "app.js")
    /\ japaneseOnly = (page # "app.js")
    /\ selectedGenres = {}
    /\ filterMode = "OR"
    /\ ratingFilter = 0
    /\ animeList = <<>>
    /\ applied = "none"
    /\ filtered = <<>>
    /\ files = (IF page = "app.js" THEN SeasonFiles ELSE <<>>)
    /\ serverManifest = ManifestOfLen(Len(files))
    /\ LoaderGlobalsInit
    /\ resultCard = ""
    /\ randomAnime = <<>>
    /\ allGenres = <<>>
    /\ genreButtons = <<>>
    /\ view = "home"
    /\ hash \in 0..Len(serverManifest)
    /\ hashEvents = 0
    /\ loadsStarted = 0
    /\ currentSeason = 0
    /\ allAnimeData = <<>>
    /\ loading = FALSE
    /\ grid = Grid("empty", <<>>)
    /\ requests = <<>>
    /\ today \in (IF page = "app.js" THEN NowInputs
                                     ELSE {[year |-> 2024, month |-> 1]})
    /\ ChartIdle

NextFacets ==
    \/ BrowserDOMContentLoaded
    \/ BrowserManifestSettles
    \/ SeasonClick
    \/ BackClick
    \/ HashChange
    \/ HashNavigate
    \/ SeasonResponse
    \/ SeasonJson
    \/ ToggleChange
    \/ GenreClick
    \/ AllClick
    \/ PickerGenresLoaded
    \/ PickerGenreClick
    \/ PickerAllClick

SpecFacets == InitFacets /\ [][NextFacets]_vars

---------------------------------------------------------------------------
(* A visit before any filter control is touched: navigation and loads on   *)
(* the season browser, the first click on the button of a picker page       *)

\* the first click on #get-random-anime once the catalog is loaded: the
\* filter of getRandomAnime runs under the configuration of the page
PickerFirstClick ==
    /\ page \in {"data_cn.js", "random.js"}
    /\ ready
    /\ applied = "none"
    /\ applied' = page
    /\ filtered' = IF page = "random.js" THEN RandomJsFilter(allAnimeCache)
                   ELSE PickerFilter(allAnimeCache)
    /\ UNCHANGED <<animeList, cfgVars, serverVars, loaderVars, pageVars>>

NextFirstVisit ==
    \/ BrowserDOMContentLoaded
    \/ BrowserManifestSettles
    \/ SeasonClick
    \/ BackClick
    \/ HashChange
    \/ HashNavigate
    \/ SeasonResponse
    \/ SeasonJson
    \/ PickerGenresLoaded
    \/ PickerFirstClick

SpecFirstVisit == InitFacets /\ [][NextFirstVisit]_vars

---------------------------------------------------------------------------
(* shouldHideNotRatedByDefault as a function of the season and the date *)

\* the seasons of three years, as manifest entries
SeasonInputs == 1..(3 * Len(Seasons))

\* new Date(): from the year before the first of them to the year after the
\* last, every month
DateInputs == { [year |-> y, month |-> m] : y \in 2023..2027, m \in 1..12 }

InitDefault ==
    /\ showHentai = FALSE
    /\ hideNotRated = FALSE
    /\ japaneseOnly = FALSE
    /\ selectedGenres = {}
    /\ filterMode = "OR"
    /\ ratingFilter = 0
    /\ animeList = <<>>
    /\ applied = "none"
    /\ filtered = <<>>
    /\ ServerIdle
    /\ LoaderGlobalsInit
    /\ randomAnime = <<>>
    /\ allGenres = <<>>
    /\ page = "app.js"
    /\ genreButtons = <<>>
    /\ view = "home"
    /\ hash = 0
    /\ hashEvents = 0
    /\ loadsStarted = 0
    /\ currentSeason \in SeasonInputs
    /\ allAnimeData = <<>>
    /\ loading = FALSE
    /\ grid = Grid("empty", <<>>)
    /\ requests = <<>>
    /\ today \in DateInputs
    /\ ChartIdle

\* hideNotRated = shouldHideNotRatedByDefault(currentYear, currentSeason)
SetNotRatedDefault ==
    /\ applied = "none"
    /\ applied' = "shouldHideNotRatedByDefault"
    /\ hideNotRated' = shouldHideNotRatedByDefault(Item(currentSeason).year,
                                                   Item(currentSeason).season,
                                                   today)
    /\ UNCHANGED <<showHentai, japaneseOnly, selectedGenres, filterMode,
                   ratingFilter, animeList, filtered, serverVars, loaderVars,
                   pageVars>>

NextDefault == SetNotRatedDefault

SpecDefault == InitDefault /\ [][NextDefault]_vars

---------------------------------------------------------------------------
(* data_cn.js: the charts of the data page.  loadAllData starts every load  *)
(* function; each fetches its file and makes its charts; reloadAllCharts    *)
(* destroys the charts the globals hold and calls loadAllData again.  Two   *)
(* of the nine load functions are modelled, one with one chart and one with *)
(* two; the others have the shape of loadRatingTrend.                       *)

\* reloadAllCharts calls one behaviour may make
MaxReloads == 2

\* the load functions loadAllData calls, in its order
ChartLoaders == <<"loadRatingTrend", "loadSeasonalPatterns">>

\* the globals a load function assigns, in the order of its new Chart calls
ChartsOf(fn) ==
    IF fn = "loadRatingTrend" THEN <<"ratingTrendChart">>
    ELSE <<"seasonalRatingsChart", "seasonalCountsChart">>

\* the Chart.js builds a page may load: new Chart(ctx) on a canvas that has a
\* chart throws ('Canvas is already in use'), or returns a second chart
ChartJsBuilds == {"refuses", "allows"}

\* the instances of a canvas that were not destroyed
LiveCharts(instances, c) ==
    { k \in 1..Len(instances) : instances[k].canvas = c /\ ~instances[k].destroyed }

\* loadAllData(): every load function runs up to its await fetch(...)
loadAllData(ls) ==
    ls \o [i \in 1..Len(ChartLoaders) |-> [fn |-> ChartLoaders[i], state |-> "fetching"]]

\* variant: no chart is destroyed
DestroyNone(instances, globals) == instances

\* if (ratingTrendChart) ratingTrendChart.destroy(); ... for every global
DestroyCharts(instances, globals) ==
    [k \in 1..Len(instances) |->
        IF \E c \in ChartNames : globals[c] = k
        THEN [instances[k] EXCEPT !.destroyed = TRUE]
        ELSE instances[k]]

\* the new Chart(ctx, ...) calls of a load function, in order: each makes an
\* instance and assigns its global; one that throws ends the try block
RECURSIVE MakeCharts(_, _, _)
MakeCharts(cs, instances, globals) ==
    IF cs = <<>> THEN [instances |-> instances, globals |-> globals, thrown |-> FALSE]
    ELSE IF chartJs = "refuses" /\ LiveCharts(instances, Head(cs)) # {}
    THEN [instances |-> instances, globals |-> globals, thrown |-> TRUE]
    ELSE MakeCharts(Tail(cs),
                    Append(instances, [canvas |-> Head(cs), destroyed |-> FALSE]),
                    [globals EXCEPT ![Head(cs)] = Len(instances) + 1])

chartRest == <<cfgVars, fnVars, serverVars, loaderVars, randomAnime, allGenres,
               page, genreButtons, view, hash, hashEvents, loadsStarted,
               currentSeason, allAnimeData, loading, grid, requests, today,
               chartJs>>

\* reloadAllCharts(): the charts the globals hold are destroyed (the globals
\* keep them), then loadAllData()
ReloadAllCharts ==
    /\ page = "data_cn.js"
    /\ reloads < MaxReloads
    /\ reloads' = reloads + 1
    /\ chartInstances' = DestroyCharts(chartInstances, chartGlobals)
    /\ dataLoads' = loadAllData(dataLoads)
    /\ UNCHANGED <<chartGlobals, sectionHidden, chartRest>>

\* the return under if (!response.ok) and the catch block of a load function:
\* its section is hidden
chartLoadFailed(r) ==
    /\ dataLoads' = RemoveAt(dataLoads, r)
    /\ sectionHidden' = sectionHidden \cup {dataLoads[r].fn}
    /\ UNCHANGED <<chartGlobals, chartInstances>>

\* the response of the fetch of a load function arrives
ChartResponse ==
    /\ page = "data_cn.js"
    /\ \E r \in 1..Len(dataLoads) :
          /\ dataLoads[r].state = "fetching"
          /\ \E how \in {"ok", "http_error", "network_error"} :
                IF how = "ok"
                THEN /\ dataLoads' = [dataLoads EXCEPT ![r].state = "parsing"]
                     /\ UNCHANGED <<chartGlobals, chartInstances, sectionHidden>>
                ELSE chartLoadFailed(r)
    /\ UNCHANGED <<reloads, chartRest>>

\* response.json() of a load function settles: the statistics are written and
\* the charts are made
ChartJson ==
    /\ page = "data_cn.js"
    /\ \E r \in 1..Len(dataLoads) :
          /\ dataLoads[r].state = "parsing"
          /\ \E how \in {"parsed", "bad_json"} :
                IF how = "parsed"
                THEN LET made == MakeCharts(ChartsOf(dataLoads[r].fn),
                                            chartInstances, chartGlobals)
                     IN  /\ dataLoads' = RemoveAt(dataLoads, r)
                         /\ chartInstances' = made.instances
                         /\ chartGlobals' = made.globals
                         /\ sectionHidden' = IF made.thrown
                                             THEN sectionHidden \cup {dataLoads[r].fn}
                                             ELSE sectionHidden
                ELSE chartLoadFailed(r)
    /\ UNCHANGED <<reloads, chartRest>>

\* the script has run: configureChartDefaults(), then the initial
\* loadAllData() at its end
InitCharts ==
    /\ showHentai = FALSE
    /\ hideNotRated = TRUE
    /\ japaneseOnly = TRUE
    /\ selectedGenres = {}
    /\ filterMode = "OR"
    /\ ratingFilter = 0
    /\ animeList = <<>>
    /\ applied = "none"
    /\ filtered = <<>>
    /\ ServerIdle
    /\ LoaderGlobalsInit
    /\ randomAnime = <<>>
    /\ allGenres = <<>>
    /\ page = "data_cn.js"
    /\ genreButtons = <<>>
    /\ view = "home"
    /\ hash = 0
    /\ hashEvents = 0
    /\ loadsStarted = 0
    /\ currentSeason = 0
    /\ allAnimeData = <<>>
    /\ loading = FALSE
    /\ grid = Grid("empty", <<>>)
    /\ requests = <<>>
    /\ today = [year |-> 2024, month |-> 1]
    /\ chartJs \in ChartJsBuilds
    /\ chartGlobals = [c \in ChartNames |-> 0]
    /\ chartInstances = <<>>
    /\ dataLoads = loadAllData(<<>>)
    /\ sectionHidden = {}
    /\ reloads = 0

NextCharts == ReloadAllCharts \/ ChartResponse \/ ChartJson

SpecCharts == InitCharts /\ [][NextCharts]_vars

---------------------------------------------------------------------------
(* The filter contract as the specification words it *)

GenreSet(r) == IF Has(r, "genres") THEN Range(r.genres) ELSE {}

IsAdult(r) == Has(r, "is_hentai") /\ r.is_hentai

\* a rating is present for every numeric score in [0,10]
RatingPresent(r) == Has(r, "score") /\ r.score \in 0..100

ExplicitlyNotJapanese(r) == Has(r, "is_japanese") /\ r.is_japanese = FALSE

SpecGenreOk(r) ==
    \/ selectedGenres = {}
    \/ IF filterMode = "OR" THEN GenreSet(r) \cap selectedGenres # {}
                            ELSE selectedGenres \subseteq GenreSet(r)

SpecKeep(r) ==
    /\ showHentai \/ ~IsAdult(r)
    /\ ~hideNotRated \/ RatingPresent(r)
    /\ ~japaneseOnly \/ ~ExplicitlyNotJapanese(r)
    /\ SpecGenreOk(r)

\* what the code of the filter that ran decides before and after the genre
\* condition, and before and after the Japanese-only condition
KeepBesidesGenre(r) ==
    IF applied = "filterAnime"
    THEN ~AppHentaiReject(r) /\ ~AppNotRatedReject(r) /\ ~AppJapaneseReject(r)
    ELSE ~PickerHentaiReject(r) /\ ~PickerNotRatedReject(r)
         /\ ~PickerJapaneseReject(r) /\ ~PickerRatingReject(r)

KeepBesidesJapanese(r) ==
    IF applied = "filterAnime"
    THEN ~AppHentaiReject(r) /\ ~AppNotRatedReject(r) /\ ~AppGenreReject(r)
    ELSE ~PickerHentaiReject(r) /\ ~PickerNotRatedReject(r)
         /\ ~PickerGenreReject(r) /\ ~PickerRatingReject(r)

Kept(r) == r \in Range(filtered)

ScenarioConfig ==
    /\ ~showHentai /\ hideNotRated /\ japaneseOnly
    /\ selectedGenres = {"Action"} /\ filterMode = "OR"

\* C1: filterAnime keeps a record iff the four conditions of the
\* specification hold, a rating counting as present for every numeric score
\* in [0,10]; in the scenario ([A, B], adult off, hide-unrated on,
\* Japanese-only on, {Action}, OR) the result is exactly [A].
C1_FilterFourConditions ==
    applied = "filterAnime" =>
        /\ filtered = SelectSeq(animeList, SpecKeep)
        /\ (animeList = <<RecA, RecB>> /\ ScenarioConfig) => filtered = <<RecA>>

\* C2: in OR mode with a non-empty selection, filterAnime and the picker of
\* data_cn.js keep, among the records their other conditions let through,
\* exactly those whose genre list shares an element with selectedGenres; a
\* record without a genres field is never kept.
C2_OrGenreIntersects ==
    (applied # "none" /\ filterMode = "OR" /\ selectedGenres # {}) =>
        /\ filtered = SelectSeq(animeList,
                LAMBDA r : KeepBesidesGenre(r)
                           /\ GenreSet(r) \cap selectedGenres # {})
        /\ \A r \in Range(animeList) : ~Has(r, "genres") => ~Kept(r)

C2_Witness ==
    /\ applied = "filterAnime" /\ filterMode = "OR"
    /\ Cardinality(selectedGenres) = 2
    /\ \E r \in Range(filtered) : ~(selectedGenres \subseteq GenreSet(r))
    /\ \E r \in Range(animeList) : ~Has(r, "genres") /\ KeepBesidesGenre(r)

\* C3: in AND mode with a non-empty selection, filterAnime and the picker of
\* data_cn.js keep, among the records their other conditions let through,
\* exactly those whose genre list holds every selected genre.
C3_AndGenreSubset ==
    (applied # "none" /\ filterMode = "AND" /\ selectedGenres # {}) =>
        filtered = SelectSeq(animeList,
            LAMBDA r : KeepBesidesGenre(r)
                       /\ selectedGenres \subseteq GenreSet(r))

C3_Witness ==
    /\ applied = "getRandomAnime" /\ filterMode = "AND"
    /\ Cardinality(selectedGenres) = 2
    /\ \E r \in Range(filtered) : selectedGenres \subseteq GenreSet(r)
    /\ \E r \in Range(animeList) :
          /\ KeepBesidesGenre(r) /\ ~Kept(r)
          /\ GenreSet(r) \cap selectedGenres # {}

\* C4: with japaneseOnly on, in filterAnime and in the picker of data_cn.js
\* alike, a record whose is_japanese flag is absent is not excluded by the
\* Japanese-only condition (it is kept whenever the other conditions let it
\* through), and a record whose flag is explicitly false is never kept.
C4_UnknownIsInnocent ==
    (applied # "none" /\ japaneseOnly) =>
        \A r \in Range(animeList) :
            /\ ~Has(r, "is_japanese") => (Kept(r) <=> KeepBesidesJapanese(r))
            /\ ExplicitlyNotJapanese(r) => ~Kept(r)

C4_Witness ==
    /\ applied = "filterAnime" /\ japaneseOnly
    /\ \E r \in Range(filtered) : ~Has(r, "is_japanese")
    /\ \E r \in Range(animeList) :
          ExplicitlyNotJapanese(r) /\ KeepBesidesJapanese(r) /\ ~Kept(r)

---------------------------------------------------------------------------
(* The loader contract *)

\* a step in which loadAllAnimeData was called, and the call it logged
CallMade == Len(calls') = Len(calls) + 1
NewestCall == calls'[Len(calls')]

LoadIds == { calls[k].load : k \in 1..Len(calls) } \ {0}

\* the records of partition i as the loader is to deliver them
Delivered(i) ==
    [k \in 1..Len(files[i]) |->
        [f \in DOMAIN files[i][k] \cup {"year", "season"} |->
            IF f = "year" THEN manifest[i].year
            ELSE IF f = "season" THEN manifest[i].season
            ELSE files[i][k][f]]]

\* the successfully fetched partitions from position i on, in manifest order
RECURSIVE InManifestOrder(_, _)
InManifestOrder(load, i) ==
    IF i > Len(manifest) THEN <<>>
    ELSE (IF load.parsed[i] THEN Delivered(i) ELSE <<>>)
         \o InManifestOrder(load, i + 1)

C5_OneInFlight ==
    /\ Cardinality(InFlight(loads)) <= 1
    /\ allAnimePromise # 0 <=> InFlight(loads) = {allAnimePromise}
    /\ \A i \in DOMAIN fetched : fetched[i] = Cardinality(LoadIds)
    /\ \A k \in 1..Len(calls) :
          (calls[k].state = "returned" /\ calls[k].load \in DOMAIN loads) =>
              /\ loads[calls[k].load].done
              /\ calls[k].settled = loads[calls[k].load].outcome

C5_AttachStep ==
    (CallMade /\ allAnimePromise # 0) =>
        /\ NewestCall.state = "awaiting"
        /\ NewestCall.load = allAnimePromise
        /\ fetched' = fetched
        /\ loads' = loads
        /\ allAnimePromise' = allAnimePromise

\* C5: a call of loadAllAnimeData made while a load is in flight attaches to
\* that load (no fetch is issued, no second load begins) and receives that
\* load's result; at most one load is in flight, and each partition has been
\* fetched once per load begun, however many callers the load has.
C5_LoadDeduplication == []C5_OneInFlight /\ [][C5_AttachStep]_vars

C5_Witness ==
    \E k1, k2 \in 1..Len(calls) :
        /\ k1 < k2
        /\ calls[k1].load # 0 /\ calls[k1].load = calls[k2].load
        /\ calls[k1].state = "returned" /\ calls[k2].state = "returned"
        /\ calls[k1].settled = calls[k2].settled
        /\ Len(calls[k1].settled.value) > 0
        /\ Len(manifest) = MaxParts

\* C6: the catalog is computed at most once: over any sequence of calls each
\* manifest partition is fetched at most once, whatever the partitions
\* returned.
C6_FetchedAtMostOnce == \A i \in DOMAIN fetched : fetched[i] <= 1

\* C7: a partition whose fetch failed (network error, non-success response,
\* unparsable body) contributes no record; the load still resolves
\* successfully, for its callers too, and holds every record of every
\* partition that was fetched successfully.
C7_PartitionFailureSwallowed ==
    \A l \in DOMAIN loads : loads[l].done =>
        /\ loads[l].outcome.ok
        /\ \A k \in 1..Len(calls) :
              (calls[k].load = l /\ calls[k].state = "returned") => calls[k].settled.ok
        /\ \A i \in 1..Len(manifest) :
              IF loads[l].parsed[i]
              THEN Range(Delivered(i)) \subseteq Range(loads[l].outcome.value)
              ELSE \A r \in Range(loads[l].outcome.value) :
                      ~(r.year = manifest[i].year /\ r.season = manifest[i].season)

C7_Witness ==
    \E l \in DOMAIN loads : \E i, j \in 1..Len(manifest) :
        /\ loads[l].done
        /\ ~loads[l].parsed[i]
        /\ loads[l].parsed[j] /\ Len(files[j]) > 0
        /\ allAnimeCache = loads[l].outcome.value

\* C8: after a failed manifest fetch the callers of loadAllAnimeData are told
\* of a failure: no call returns the empty collection, and the picker does not
\* show 'No anime found', which is what an empty catalog yields.
C8_ManifestFailureReported ==
    manifestState = "failed" =>
        \A k \in 1..Len(calls) : calls[k].state = "returned" =>
            /\ calls[k].settled # Fulfilled(<<>>)
            /\ calls[k].shown # "no_anime_found"

\* C9: the collection a load delivers, and leaves in allAnimeCache, is the
\* concatenation in manifest order of the successfully fetched partitions,
\* each in its own order and each record with its partition's year and
\* season, in whatever order the fetches completed.
C9_ManifestOrder ==
    \A l \in DOMAIN loads : loads[l].done =>
        /\ loads[l].outcome = Fulfilled(InManifestOrder(loads[l], 1))
        /\ l = Max(DOMAIN loads) => allAnimeCache = InManifestOrder(loads[l], 1)

C9_Witness ==
    \E l \in DOMAIN loads :
        /\ loads[l].done
        /\ Len(loads[l].order) >= 2
        /\ loads[l].order[1] > loads[l].order[2]
        /\ \A i \in 1..Len(manifest) : loads[l].parsed[i] /\ Len(files[i]) > 0
        /\ allAnimeCache = loads[l].outcome.value

C10_EmptyManifestStep ==
    (CallMade /\ Len(manifest') = 0) =>
        /\ NewestCall.state = "returned"
        /\ NewestCall.settled = Fulfilled(<<>>)
        /\ fetched' = fetched
        /\ loads' = loads
        /\ allAnimePromise = 0 /\ allAnimePromise' = 0
        /\ allAnimeCache' = allAnimeCache

\* C10: with an empty manifest a call of loadAllAnimeData returns the empty
\* collection in the same step: no fetch is issued, no load begins,
\* allAnimePromise stays null and allAnimeCache is left as it was.
C10_EmptyManifest == [][C10_EmptyManifestStep]_vars

C10_Witness ==
    /\ manifestState = "loaded" /\ manifest = <<>>
    /\ \E k \in 1..Len(calls) :
          /\ calls[k].who = "getRandomAnime"
          /\ calls[k].state = "returned"
          /\ calls[k].settled = Fulfilled(<<>>)
    /\ allAnimePromise = 0 /\ loads = <<>>

---------------------------------------------------------------------------
(* Further claims on the loader and the filters *)

HasTriple(r) == Has(r, "year") /\ Has(r, "season") /\ Has(r, "mal_id")

\* C11: the manifest entries being distinct and no partition repeating an id,
\* every record of allAnimeCache carries its partition's year and season, and
\* no two positions of allAnimeCache hold the same (year, season, id), after
\* any number of sequential or concurrent calls of loadAllAnimeData.
C11_TripleUnique ==
    \A i, j \in 1..Len(allAnimeCache) :
        /\ HasTriple(allAnimeCache[i])
        /\ i # j =>
              <<allAnimeCache[i].year, allAnimeCache[i].season, allAnimeCache[i].mal_id>>
            # <<allAnimeCache[j].year, allAnimeCache[j].season, allAnimeCache[j].mal_id>>

C11_Witness ==
    /\ \A i \in DOMAIN fetched : fetched[i] >= 2
    /\ \E i, j \in 1..Len(allAnimeCache) :
          /\ i # j
          /\ allAnimeCache[i].mal_id = allAnimeCache[j].mal_id
    /\ \E k1, k2 \in 1..Len(calls) :
          k1 # k2 /\ calls[k1].load # 0 /\ calls[k1].load = calls[k2].load

\* C12: with the rating threshold at 0 the picker of data_cn.js draws from
\* exactly the records filterAnime returns for the same list under the same
\* configuration.
C12_PickerEqualsFilter ==
    (applied = "getRandomAnime" /\ ratingFilter = 0) =>
        filtered = filterAnime(animeList)

\* what the picker of data_cn.js decides besides its rating threshold
KeepBesidesRating(r) ==
    /\ ~PickerHentaiReject(r) /\ ~PickerNotRatedReject(r)
    /\ ~PickerJapaneseReject(r) /\ ~PickerGenreReject(r)

SpecRatingOk(r) ==
    \/ ~Has(r, "score") /\ ratingFilter = 0
    \/ Has(r, "score") /\ r.score >= ratingFilter

\* C14: among the records its other conditions let through, the picker of
\* data_cn.js keeps exactly those that are unrated with the threshold at 0, or
\* rated at or above the threshold; a positive threshold excludes every
\* unrated record, hideNotRated on or off, and the threshold 0 excludes none.
C14_RatingThreshold ==
    applied = "getRandomAnime" =>
        /\ filtered = SelectSeq(animeList,
                LAMBDA r : KeepBesidesRating(r) /\ SpecRatingOk(r))
        /\ ratingFilter > 0 => \A r \in Range(filtered) : Has(r, "score")
        /\ ratingFilter = 0 => filtered = SelectSeq(animeList, KeepBesidesRating)

C14_Witness ==
    /\ applied = "getRandomAnime" /\ ratingFilter > 0 /\ ~hideNotRated
    /\ \E r \in Range(animeList) :
          ~Has(r, "score") /\ KeepBesidesRating(r) /\ ~Kept(r)
    /\ \E r \in Range(filtered) : r.score = ratingFilter

\* s is t with some positions left out: the positions of t, in order, that
\* s takes its elements from
RECURSIVE IsSubsequence(_, _)
IsSubsequence(s, t) ==
    IF s = <<>> THEN TRUE
    ELSE IF t = <<>> THEN FALSE
    ELSE IF Head(s) = Head(t) /\ IsSubsequence(Tail(s), Tail(t)) THEN TRUE
    ELSE IsSubsequence(s, Tail(t))

\* C20: the result of filterAnime is a subsequence of its argument: the kept
\* records in their order of the argument, none added, none repeated.
C20_OrderPreserved ==
    applied = "filterAnime" => IsSubsequence(filtered, animeList)

C20_Witness ==
    /\ applied = "filterAnime"
    /\ Len(animeList) >= 2
    /\ Len(filtered) = Len(animeList)
    /\ filtered[1] # filtered[2]

\* the globals of random.js, which no handler of random.js assigns
RandomJsGlobals ==
    ~showHentai /\ hideNotRated /\ japaneseOnly /\ filterMode = "OR"

\* C13: under the globals of random.js (adult off, hide-unrated on,
\* Japanese-only on, mode OR) the record getRandomAnime of random.js returns
\* passes the four conditions of the filter: it is not adult, it is rated, it
\* is not explicitly non-Japanese, and it meets the genre selection.
C13_RandomJsHonoursFilters ==
    (applied = "random.js" /\ RandomJsGlobals /\ randomAnime # <<>>) =>
        SpecKeep(randomAnime[1])

\* C15: no qualifying record is not an error: filterAnime returns the empty
\* sequence when no record meets the four conditions, and a pick of either
\* picker over an empty candidate list draws nothing and shows 'no anime
\* found'; no pick ever shows the error card, and a pick over a non-empty
\* candidate list shows one of the candidates.
C15_EmptyIsNotAnError ==
    /\ (applied = "filterAnime" /\ \A r \in Range(animeList) : ~SpecKeep(r))
          => filtered = <<>>
    /\ applied \in {"random.js", "data_cn.js"} =>
          /\ resultCard # "error_occurred"
          /\ filtered = <<>> => (randomAnime = <<>> /\ resultCard = "no_anime_found")
          /\ filtered # <<>> =>
                /\ resultCard = "anime"
                /\ Len(randomAnime) = 1
                /\ randomAnime[1] \in Range(filtered)

C15_Witness ==
    /\ applied = "data_cn.js"
    /\ animeList # <<>>
    /\ filtered = <<>>
    /\ resultCard = "no_anime_found"

\* a step in which a call of getRandomAnime returns
PickReturns(k) ==
    /\ k \in 1..Len(calls')
    /\ calls'[k].who = "getRandomAnime"
    /\ calls'[k].state = "returned"
    /\ (k > Len(calls) \/ calls[k].state # "returned")

\* C16: a pick reads and does not write: over a call of getRandomAnime the
\* selection, the records and allAnimeCache are what they were.
C16_PickStep ==
    (\E k \in 1..Len(calls') : PickReturns(k)) =>
        /\ allAnimeCache' = allAnimeCache
        /\ selectedGenres' = selectedGenres

C16_PickerReadOnly == [][C16_PickStep]_vars

\* where the catalog lists a genre: record i, position k of its genres
GenrePositions ==
    { <<i, k>> \in (1..Len(allAnimeCache)) \X (1..Len(Alphabet)) :
          /\ Has(allAnimeCache[i], "genres")
          /\ k <= Len(allAnimeCache[i].genres) }

\* the genres of the catalog that may become facets
Eligible ==
    { allAnimeCache[p[1]].genres[p[2]] : p \in GenrePositions } \ {"Hentai", ""}

\* how often the catalog lists each of them
Frequency ==
    LET positions == GenrePositions IN
    [g \in Eligible |->
        Cardinality({ p \in positions : allAnimeCache[p[1]].genres[p[2]] = g })]

Min(a, b) == IF a < b THEN a ELSE b

\* C18: after loadGenres, allGenres is in alphabetical order without
\* repetition, holds only genres of the catalog other than the reserved
\* adult genre, as many as there are up to 30, and no genre left out is more
\* frequent than a genre kept: a genre strictly more frequent than some
\* genre kept (the 30th-ranked one, say) is in allGenres, wherever it sorts.
C18_TopGenres ==
    applied = "loadGenres" =>
        LET eligible  == Eligible
            frequency == Frequency
            kept      == Range(allGenres)
        IN  /\ \A k \in 1..(Len(allGenres) - 1) :
                  NameRank(allGenres[k]) < NameRank(allGenres[k + 1])
            /\ kept \subseteq eligible
            /\ Len(allGenres) = Min(TopGenres, Cardinality(eligible))
            /\ \A h \in eligible \ kept :
                  ~ \E g \in kept : frequency[h] > frequency[g]

\* more than 30 genres, a rare one left out although it sorts before every
\* genre kept, and the alphabetically last one kept
C18_Witness ==
    /\ applied = "loadGenres"
    /\ Cardinality(Eligible) > TopGenres
    /\ Len(allGenres) = TopGenres
    /\ \E h \in Eligible \ Range(allGenres) :
          /\ NameRank(h) < NameRank(allGenres[1])
          /\ \A g \in Range(allGenres) : Frequency[h] < Frequency[g]
    /\ allGenres[TopGenres] = Alphabet[Len(Alphabet)]

\* the genres whose button is shown selected (random.js: has the class
\* 'active', which is what its getRandomAnime reads as the selection)
ActiveGenres ==
    { genreButtons[k].genre :
          k \in { j \in 1..Len(genreButtons) : genreButtons[j].isSelected } }

\* C19: on the season browser and on both picker pages the reserved genre
\* 'Hentai' is never a facet: it is not in allGenres, no genre button carries
\* it, and it is never selected, whatever genres the records list.
C19_ReservedGenreNeverFacet ==
    /\ "Hentai" \notin Range(allGenres)
    /\ \A k \in 1..Len(genreButtons) : genreButtons[k].genre # "Hentai"
    /\ "Hentai" \notin selectedGenres
    /\ "Hentai" \notin ActiveGenres

\* a season with a record of the reserved genre is loaded, its facets are
\* shown and one of them is selected
C19_Witness ==
    /\ page = "app.js"
    /\ \E r \in Range(allAnimeData) : "Hentai" \in GenreSet(r)
    /\ Len(allGenres) > 0
    /\ Len(genreButtons) = Len(allGenres)
    /\ selectedGenres # {}


---------------------------------------------------------------------------
(* filterAnime as a function of the mode, and applied to its own result *)

C21_ModeSwitch ==
    (applied = "filterAnime" /\ applied' = "updateFilterMode"
     /\ selectedGenres # {}) =>
        /\ (filterMode = "OR" /\ filterMode' = "AND") =>
               /\ IsSubsequence(filtered', filtered)
               /\ Range(filtered') \subseteq Range(filtered)
        /\ (filterMode = "AND" /\ filterMode' = "OR") =>
               /\ IsSubsequence(filtered, filtered')
               /\ Range(filtered) \subseteq Range(filtered')

\* C21: with a non-empty selection and the other toggles fixed, what
\* filterAnime keeps of a list in AND mode is among what it keeps of the same
\* list in OR mode, whichever mode was in force first.
C21_AndWithinOr == [][C21_ModeSwitch]_vars

C21_Witness ==
    /\ applied = "updateFilterMode" /\ filterMode = "AND"
    /\ selectedGenres = {"Action", "Comedy"}
    /\ ~showHentai /\ ~hideNotRated /\ ~japaneseOnly
    /\ Len(animeList) = 2 /\ Len(filtered) = 1
    /\ \A r \in Range(animeList) :
           ~IsAdult(r) /\ GenreSet(r) \cap selectedGenres # {}

C22_SecondPass ==
    (applied = "filterAnime" /\ applied' = "filterAnime twice") =>
        filtered' = filtered

\* C22: filterAnime applied to its own result, under the same configuration,
\* returns that result unchanged.
C22_Idempotent == [][C22_SecondPass]_vars

C22_Witness ==
    /\ applied = "filterAnime twice"
    /\ Len(filtered) >= 1
    /\ Len(filtered) < Len(animeList)
    /\ selectedGenres # {}

---------------------------------------------------------------------------
(* The configuration of a first visit *)

\* results have been computed: the grid of the season browser was rendered
\* from a season file, the picker ran its filter
FirstResults ==
    \/ page = "app.js" /\ grid.kind \in {"cards", "none_found"}
    \/ page \in {"data_cn.js", "random.js"} /\ applied # "none"

\* C23 as stated: before any filter control is touched, the first results are
\* computed with adult content hidden, unrated records hidden, Japanese-only
\* on, no genre selected and OR mode, on the picker pages and on the season
\* browser whichever season is opened first.
C23_DefaultConfiguration ==
    FirstResults =>
        /\ showHentai = FALSE
        /\ hideNotRated = TRUE
        /\ japaneseOnly = TRUE
        /\ selectedGenres = {}
        /\ filterMode = "OR"

\* C23 amended: as above, but on the season browser hideNotRated is what
\* shouldHideNotRatedByDefault returned for the season requested last: false
\* for an upcoming season and for the current season in its first month.
C23_DefaultConfigurationBySeason ==
    FirstResults =>
        /\ showHentai = FALSE
        /\ japaneseOnly = TRUE
        /\ selectedGenres = {}
        /\ filterMode = "OR"
        /\ IF page = "app.js"
           THEN hideNotRated = ~ \/ Item(currentSeason).year > today.year
                                 \/ /\ Item(currentSeason).year = today.year
                                    /\ today.month <= seasonStartMonth(Item(currentSeason).season)
           ELSE hideNotRated = TRUE

C23_Witness ==
    /\ page = "app.js"
    /\ grid.kind = "cards"
    /\ hideNotRated = FALSE
    /\ currentSeason = 2
    /\ today.month = 4
    /\ allAnimeData = files[currentSeason]

---------------------------------------------------------------------------
(* The default of 'Hide Not Rated' *)

\* the month a season starts in
StartMonth(season) ==
    IF season = "winter" THEN 1
    ELSE IF season = "spring" THEN 4
    ELSE IF season = "summer" THEN 7
    ELSE 10

\* the season has not started at the date
Upcoming(year, season, date) ==
    \/ year > date.year
    \/ year = date.year /\ StartMonth(season) > date.month

\* the date is in the first month of the season
InFirstMonth(year, season, date) ==
    year = date.year /\ date.month = StartMonth(season)

\* C25: shouldHideNotRatedByDefault(year, season) returns false exactly when
\* the season is upcoming or is the current season in its first month, and
\* true for every other past or current season.
C25_NotRatedDefault ==
    applied = "shouldHideNotRatedByDefault" =>
        LET year   == Item(currentSeason).year
            season == Item(currentSeason).season
        IN  hideNotRated = ~(Upcoming(year, season, today)
                             \/ InFirstMonth(year, season, today))

C25_Witness ==
    /\ applied = "shouldHideNotRatedByDefault"
    /\ hideNotRated = FALSE
    /\ Item(currentSeason).season = "fall"
    /\ InFirstMonth(Item(currentSeason).year, Item(currentSeason).season, today)

---------------------------------------------------------------------------
(* The season browser: what it holds against what it was asked for *)

\* C26: whenever no season fetch is in flight after one or more loadSeason
\* calls, and the last response was rendered, allAnimeData, allGenres and the
\* grid are those of the season requested last (currentSeason), in whatever
\* order the responses of overlapping loadSeason calls arrived.
C26_LastRequestWins ==
    (/\ page = "app.js"
     /\ view = "anime"
     /\ loadsStarted > 0
     /\ requests = <<>>
     /\ grid.kind \in {"cards", "none_found"}) =>
        /\ allAnimeData = files[currentSeason]
        /\ allGenres = extractGenres(files[currentSeason])
        /\ Range(grid.cards) \subseteq Range(files[currentSeason])

\* a filter control of the season browser was used: no navigation, no
\* response, and the configuration or the grid changed
FilterInteraction ==
    /\ page = "app.js"
    /\ view = "anime"
    /\ UNCHANGED <<view, hash, hashEvents, loadsStarted, currentSeason,
                   requests, allAnimeData, manifestState>>
    /\ <<cfgVars, grid, genreButtons>>' # <<cfgVars, grid, genreButtons>>

C27_AfterFailure ==
    (/\ FilterInteraction
     /\ requests = <<>>
     /\ grid.kind = "failed") =>
        (grid'.kind = "cards" =>
            Range(grid'.cards) \subseteq Range(files[currentSeason]))

\* C27: once loadSeason has failed and its message is in the grid, no toggle,
\* genre click or OR / AND switch renders cards of another season under the
\* title of the season that was requested.
C27_FailureShowsNoOtherSeason == [][C27_AfterFailure]_vars

\* C28: on the season browser, once a season has finished loading (its genre
\* buttons are rendered and no fetch is in flight), every selected genre is
\* one of allGenres, so it has a button with which it can be deselected.
C28_SelectionWithinFacets ==
    (/\ page = "app.js"
     /\ view = "anime"
     /\ requests = <<>>
     /\ grid.kind \in {"cards", "none_found"}
     /\ allAnimeData # <<>>) =>
        /\ selectedGenres \subseteq Range(allGenres)
        /\ \A g \in selectedGenres :
              \E k \in 1..Len(genreButtons) : genreButtons[k].genre = g

C29_AfterInteraction ==
    (FilterInteraction /\ Len(allAnimeData) > 0) =>
        LET shown == filterAnime(allAnimeData)'
        IN  IF shown = <<>> THEN grid' = Grid("none_found", <<>>)
            ELSE grid' = Grid("cards", shown)

\* C29: after every filter interaction on the season browser (a toggle, a
\* genre click, 'All', OR / AND) made while allAnimeData is non-empty, the
\* grid is filterAnime(allAnimeData) under the updated configuration, in
\* order, or the 'no anime found' message when that result is empty.
C29_GridFollowsFilters == [][C29_AfterInteraction]_vars

C29_Witness ==
    /\ page = "app.js" /\ view = "anime"
    /\ showHentai /\ filterMode = "AND" /\ selectedGenres = {"Comedy"}
    /\ allAnimeData = files[1]
    /\ grid = Grid("cards", allAnimeData)

---------------------------------------------------------------------------
(* The loader settles *)

\* call k of loadAllAnimeData is waiting for its load
Awaiting(k) == calls[k].state = "awaiting"

\* call k has returned, successfully, the records of the partitions of its
\* load that were fetched and parsed, and those only
ResolvedWithSucceeded(k) ==
    /\ calls[k].state = "returned"
    /\ calls[k].settled.ok
    /\ calls[k].load \in DOMAIN loads
    /\ calls[k].settled.value = InManifestOrder(loads[calls[k].load], 1)

\* a load is in flight or a call waits for one
LoaderPending ==
    \/ allAnimePromise # 0
    \/ \E k \in 1..Len(calls) : Awaiting(k)

\* no load is in flight and no call waits
LoaderQuiet ==
    /\ allAnimePromise = 0
    /\ \A k \in 1..Len(calls) : ~Awaiting(k)

\* a call that has returned from a load returned what that load fetched
ReturnedWhatSucceeded ==
    \A k \in 1..Len(calls) :
        (~Awaiting(k) /\ calls[k].load \in DOMAIN loads) => ResolvedWithSucceeded(k)

\* C24: if every partition fetch eventually settles, every pending call of
\* loadAllAnimeData eventually resolves, with the records of the partitions
\* that succeeded, and allAnimePromise is eventually null again.
C24_LoaderSettles ==
    /\ LoaderPending ~> LoaderQuiet
    /\ []ReturnedWhatSucceeded

C24_Witness ==
    \E k \in 1..Len(calls) : \E i, j \in 1..Len(manifest) :
        /\ ResolvedWithSucceeded(k)
        /\ calls[k].who = "getRandomAnime"
        /\ ~loads[calls[k].load].parsed[i]
        /\ loads[calls[k].load].parsed[j] /\ Len(files[j]) > 0
        /\ allAnimePromise = 0

---------------------------------------------------------------------------
(* The charts of the data page *)

C30_OneLivePerCanvas ==
    \A c \in ChartNames :
        /\ Cardinality(LiveCharts(chartInstances, c)) <= 1
        /\ LiveCharts(chartInstances, c) # {} =>
               chartGlobals[c] \in LiveCharts(chartInstances, c)

C30_CreateStep ==
    \A k \in (Len(chartInstances) + 1)..Len(chartInstances') :
        LiveCharts(chartInstances, chartInstances'[k].canvas) = {}

=============================================================================
